---- MODULE Spec2Model ----
(***************************************************************************)
(* Bet lifecycle and settlement engine of project-bay (backend/app).       *)
(*                                                                         *)
(* The committed database is the variables points, bets, challenges and    *)
(* votes.  Every request works in its own SQLAlchemy session: it loads     *)
(* rows (auth.get_current_user, then the handler's queries), computes new  *)
(* attribute values in Python from what it loaded, and db.commit() writes  *)
(* those values as absolute column values (UPDATE ... SET points = v).     *)
(* The store is PostgreSQL at its default READ COMMITTED level and no      *)
(* handler takes a row lock, so a request is modelled as a read point      *)
(* (Begin...), for vote_on_proof a second read point after db.flush()      *)
(* (FlushVote), and a commit point (Commit...).  Other sessions may commit *)
(* between the points.  A request that raises before it changes anything   *)
(* (an HTTPException or a service error out of its checks) leaves the      *)
(* state as it was: a stuttering step, so the actions below are the        *)
(* requests whose checks pass.                                             *)
(***************************************************************************)
EXTENDS Integers, Sequences, FiniteSets, TLC

\* ---------------------------------------------------------------- bounds
MaxBets == 1         \* rows of the bets table
MaxChallenges == 2   \* rows of the challenges table
MaxTime == 1         \* the clock stops here; a deadline of 1 is then reached
MaxRaces == 1        \* sessions opened while another session was open
MaxStars == 2        \* the star count of a bet stops here

\* ------------------------------------------------------ program constants
StartPoints == 10

Users == {1, 2, 3, 4}
\* The users who send challenge requests in Spec and SeqSpec; user 4 takes
\* part in the tribunal specification only.
Requesters == {1, 2, 3}

BetStatus == {"ACTIVE", "PROOF_UNDER_REVIEW", "WON", "LOST", "CANCELLED"}
ChallengeStatus == {"PENDING", "ACCEPTED", "REJECTED", "CANCELLED"}
VoteValues == {"cool", "not_cool"}
Terminal == {"WON", "LOST", "CANCELLED"}

\* Inputs of the requests the interleaved specification explores.
BetAmounts == {7}
ChallengeAmounts == {3}
Deadlines == {1}

VARIABLES
    points,      \* users.points, by user id
    bets,        \* the bets table: sequence indexed by bet id; the fields stake
                 \* (the amount at creation) and settled (the settlements
                 \* committed so far) are history, not columns
    challenges,  \* the challenges table: sequence indexed by challenge id
    votes,       \* the proof_votes table: sequence indexed by vote id
    now,         \* the clock (datetime.now)
    sess,        \* the request sessions in flight
    sweep,       \* the session of the deadline checker thread
    races,       \* how many sessions began while another one was open
    resp,        \* the request being answered and its outcome, where the
                 \* specification observes responses (NoResp elsewhere)
    proofs,      \* the bets whose proof_comment, proof_media_url and
                 \* proof_submitted_at are set, observed with the responses
    stars,       \* bets.stars, by bet id
    bet_stars,   \* the bet_stars table: the (bet_id, user_id) pairs
    feed_cache,  \* feed_cache._store: the entry of each cache key
    feeds,       \* the feed reads and star toggles in flight
    served       \* what the last feed read answered from the cache

vars == <<points, bets, challenges, votes, now, sess, sweep, races, resp, proofs,
          stars, bet_stars, feed_cache, feeds, served>>
feed == <<stars, bet_stars, feed_cache, feeds, served>>
db == <<points, bets, challenges, votes>>

\* ------------------------------------------------------------- helpers
RECURSIVE SumOver(_, _)
\* sum(f[i] for i in S)
SumOver(S, f) ==
    IF S = {} THEN 0
    ELSE LET i == CHOOSE x \in S : TRUE IN f[i] + SumOver(S \ {i}, f)

BetIds == 1..Len(bets)
ChIds == 1..Len(challenges)

\* bet.challenges: the challenge rows of a bet
ChallengesOf(b) == {i \in ChIds : challenges[i].bet_id = b}
WithStatus(b, S) == {i \in ChallengesOf(b) : challenges[i].status \in S}
AmountOf == [i \in ChIds |-> challenges[i].amount]
\* sum(c.amount for c in ids)
Stake(ids) == SumOver(ids, AmountOf)

\* Credits per user when challenge i is paid pay[i]; a user row is one object
\* per session (identity map), so several payouts to one user add up.
CreditsOf(ids, pay) ==
    [u \in Users |-> SumOver({i \in ids : challenges[i].challenger_id = u}, pay)]

\* The dirty user rows of a session: loaded value plus credits, where credited.
Credited(base, cr) ==
    [u \in {x \in Users : cr[x] # 0} |-> base[u] + cr[u]]

\* math.floor((amount / total) * bet_amount) in IEEE doubles.  The listed
\* triples are those, for total <= 50 and bet_amount <= 60, where the double
\* product falls just below the exact integer quotient.
FloatShort ==
    { <<3, 11, 55>>, <<6, 11, 55>>, <<6, 22, 55>>, <<12, 22, 55>>,
      <<15, 22, 22>>, <<15, 22, 44>>, <<13, 23, 23>>, <<13, 23, 46>>,
      <<15, 26, 26>>, <<15, 26, 52>>, <<9, 33, 55>>, <<18, 33, 55>>,
      <<31, 39, 39>>, <<23, 43, 43>>, <<31, 43, 43>>, <<12, 44, 55>>,
      <<15, 44, 44>>, <<24, 44, 55>>, <<30, 44, 22>>, <<30, 44, 44>>,
      <<13, 45, 45>>, <<26, 45, 45>>, <<13, 46, 46>>, <<26, 46, 23>>,
      <<26, 46, 46>>, <<3, 47, 47>>, <<6, 47, 47>>, <<12, 47, 47>>,
      <<24, 47, 47>>, <<31, 47, 47>>, <<1, 49, 49>>, <<2, 49, 49>>,
      <<4, 49, 49>>, <<8, 49, 49>>, <<16, 49, 49>>, <<27, 49, 49>>,
      <<32, 49, 49>>, <<29, 50, 50>> }
FloorShare(amount, total, bet_amount) ==
    IF <<amount, total, bet_amount>> \in FloatShort
    THEN ((amount * bet_amount) \div total) - 1
    ELSE (amount * bet_amount) \div total

\* ------------------------------------------------------------- sessions
NoWrite == [u \in {} |-> 0]
Idle ==
    [op |-> "idle", pc |-> "idle", user |-> 0, bet |-> 0, ch |-> 0,
     arg |-> "", amt |-> 0, dl |-> 0,
     me_pts |-> 0, bamt |-> 0, act |-> {},
     wpts |-> NoWrite, wst |-> "", wamt |-> -1, wch |-> NoWrite,
     copy |-> 1]
\* The deadline checker's thread between two passes: stop is _stop_event, and
\* failed is the bet at which the last finished pass raised (0 if it did not).
SweepIdle == [pc |-> "idle", wpts |-> NoWrite, lost |-> {},
              stop |-> FALSE, failed |-> 0]

\* The public feed: get_public_bets_paginated's cache keys are the pages
\* (cache_key = f"feed_p{page}_l{limit}", with pages of FeedLimit bets).
FeedLimit == 1
FeedKeys == {1, 2}
\* feed_cache._store has no entry for a key.
NoEntry == [total |-> -1, bets |-> <<>>]
\* No feed read has been answered from the cache.
NoServed == [key |-> 0, value |-> NoEntry]
\* Nobody has starred a bet, the cache is empty, no feed read is in flight.
NoFeed ==
    /\ stars = [b \in 1..MaxBets |-> 0]
    /\ bet_stars = {}
    /\ feed_cache = [k \in FeedKeys |-> NoEntry]
    /\ feeds = {}
    /\ served = NoServed

\* No request is being answered.
NoResp == [op |-> "none", user |-> 0, bet |-> 0, ch |-> 0, amt |-> 0,
           arg |-> "", code |-> ""]

\* Two requests with the same content are two sessions: the later one is
\* told apart by its copy number.
Tag(r) ==
    [r EXCEPT !.copy = 1 + Cardinality({q \in sess : [q EXCEPT !.copy = 1] = r})]
\* Some session is open: a request's or the deadline checker's.
Busy == sess # {} \/ sweep.pc # "idle"
\* A session that opens while another one is open uses up one of the
\* MaxRaces overlaps a behaviour of the model may have.
Overlap ==
    IF Busy THEN races < MaxRaces /\ races' = races + 1 ELSE UNCHANGED races
\* Request r opens its session.
Open(r) ==
    /\ sess' = sess \cup {Tag(r)}
    /\ Overlap
\* Session r is closed.
Close(r) == sess' = sess \ {r} /\ UNCHANGED races

\* A commit that leaves the dirty user rows for a later transaction.
PointsNotWritten(w) == points
\* What db.commit() writes for session r: the dirty attributes only.
WritePoints(w) == [u \in Users |-> IF u \in DOMAIN w THEN w[u] ELSE points[u]]
WriteBets(r) ==
    [b \in BetIds |->
        IF b # r.bet THEN bets[b]
        ELSE [bets[b] EXCEPT
                !.status = IF r.wst = "" THEN @ ELSE r.wst,
                !.amount = IF r.wamt = -1 THEN @ ELSE r.wamt,
                !.settled = IF r.wst \in Terminal
                            THEN Append(@, [by |-> r.op, status |-> r.wst])
                            ELSE @]]
WriteChallenges(w) ==
    [i \in ChIds |->
        IF i \in DOMAIN w THEN [challenges[i] EXCEPT !.status = w[i]]
        ELSE challenges[i]]
Init ==
    /\ points = [u \in Users |-> StartPoints]
    /\ bets = <<>>
    /\ challenges = <<>>
    /\ votes = <<>>
    /\ now = 0
    /\ sess = {}
    /\ sweep = SweepIdle
    /\ races = 0
    /\ resp = NoResp
    /\ proofs = {}
    /\ NoFeed

\* ----------------------------------------------------------- create bet
\* validate_points without its InsufficientFundsError branch.
validate_points_no_funds_check(user_points, amount) == amount > 0
\* validate_points: raises unless 0 < amount <= user.points
validate_points(user_points, amount) == amount > 0 /\ user_points >= amount

\* The truth value of is_personal(bet.title) in create_bet_endpoint, for a
\* title the validator classifies as personal or not.  is_personal is an
\* async def and the call is not awaited: its value is a coroutine object,
\* which is true whatever the validator would answer.
is_personal(personal) == TRUE

\* create_bet_endpoint and create_bet.  get_current_user loads the user row;
\* the body validates against that loaded row and commits.
CreateBetAllowed(u, amount, personal) ==
    validate_points(points[u], amount) /\ is_personal(personal)
CreateBetSessionNoDebit(u, amount, deadline) ==
    [Idle EXCEPT !.op = "create_bet", !.pc = "commit", !.user = u,
                 !.amt = amount, !.dl = deadline,
                 !.wpts = [x \in {u} |-> points[u]]]
\* The session of the request once its checks have passed.
CreateBetSession(u, amount, deadline) ==
    [Idle EXCEPT !.op = "create_bet", !.pc = "commit", !.user = u,
                 !.amt = amount, !.dl = deadline,
                 !.wpts = [x \in {u} |-> points[u] - amount]]
BeginCreateBet(u, amount, deadline, personal) ==
    /\ CreateBetAllowed(u, amount, personal)
    /\ Open(CreateBetSession(u, amount, deadline))
    /\ UNCHANGED <<points, bets, challenges, votes, now, sweep>>

CommitCreateBet(r) ==
    /\ r.op = "create_bet" /\ r.pc = "commit"
    /\ Close(r)
    /\ points' = WritePoints(r.wpts)
    /\ bets' = Append(bets, [user_id |-> r.user, amount |-> r.amt,
                             deadline |-> r.dl, status |-> "ACTIVE",
                             stake |-> r.amt, settled |-> <<>>])
    /\ UNCHANGED <<challenges, votes, now, sweep>>

\* ------------------------------------------------------------ challenges
\* The existing_challenge query of create_challenge.
HoldsActive(u, b) ==
    \E i \in WithStatus(b, {"PENDING", "ACCEPTED"}) : challenges[i].challenger_id = u

ChallengeAllowed(u, b, amount) ==
    /\ b \in BetIds
    /\ bets[b].status = "ACTIVE"
    /\ bets[b].user_id # u
    /\ ~HoldsActive(u, b)
    /\ validate_points(points[u], amount)

ChallengeSession(u, b, amount) ==
    [Idle EXCEPT !.op = "challenge", !.pc = "commit", !.user = u,
                 !.bet = b, !.amt = amount,
                 !.wpts = [x \in {u} |-> points[u] - amount]]
BeginChallenge(u, b, amount) ==
    /\ ChallengeAllowed(u, b, amount)
    /\ Open(ChallengeSession(u, b, amount))
    /\ UNCHANGED <<points, bets, challenges, votes, now, sweep>>

CommitChallenge(r) ==
    /\ r.op = "challenge" /\ r.pc = "commit"
    /\ Close(r)
    /\ points' = WritePoints(r.wpts)
    /\ challenges' = Append(challenges,
                            [bet_id |-> r.bet, challenger_id |-> r.user,
                             amount |-> r.amt, status |-> "PENDING"])
    /\ UNCHANGED <<bets, votes, now, sweep>>

\* The checks accept_challenge and reject_challenge share.
CreatorsPending(u, b, c) ==
    /\ b \in BetIds
    /\ bets[b].user_id = u
    /\ c \in ChallengesOf(b)
    /\ challenges[c].status = "PENDING"

AcceptAllowed(u, b, c) ==
    CreatorsPending(u, b, c) /\ validate_points(points[u], challenges[c].amount)

AcceptSessionKeepsAmount(u, b, c) ==
    [Idle EXCEPT !.op = "accept", !.pc = "commit", !.user = u,
                 !.bet = b, !.ch = c,
                 !.wpts = [x \in {u} |-> points[u] - challenges[c].amount],
                 !.wamt = bets[b].amount,
                 !.wch = [i \in {c} |-> "ACCEPTED"]]
AcceptSession(u, b, c) ==
    [Idle EXCEPT !.op = "accept", !.pc = "commit", !.user = u,
                 !.bet = b, !.ch = c,
                 !.wpts = [x \in {u} |-> points[u] - challenges[c].amount],
                 !.wamt = bets[b].amount + challenges[c].amount,
                 !.wch = [i \in {c} |-> "ACCEPTED"]]
BeginAccept(u, b, c) ==
    /\ AcceptAllowed(u, b, c)
    /\ Open(AcceptSession(u, b, c))
    /\ UNCHANGED <<points, bets, challenges, votes, now, sweep>>

RejectSession(u, b, c) ==
    LET who == challenges[c].challenger_id IN
    [Idle EXCEPT !.op = "reject", !.pc = "commit", !.user = u,
                 !.bet = b, !.ch = c,
                 !.wpts = [x \in {who} |-> points[who] + challenges[c].amount],
                 !.wch = [i \in {c} |-> "REJECTED"]]
BeginReject(u, b, c) ==
    /\ CreatorsPending(u, b, c)
    /\ Open(RejectSession(u, b, c))
    /\ UNCHANGED <<points, bets, challenges, votes, now, sweep>>

\* db.commit() of accept_challenge, reject_challenge, resolve_bet, upload_proof:
\* updates only, no inserted row.
CommitUpdate(r) ==
    /\ r.op \in {"accept", "reject", "resolve", "proof"} /\ r.pc = "commit"
    /\ Close(r)
    /\ points' = WritePoints(r.wpts)
    /\ bets' = WriteBets(r)
    /\ challenges' = WriteChallenges(r.wch)
    /\ UNCHANGED <<votes, now, sweep>>

\* ------------------------------------------------- settlement formulas
\* A WON payout of the bet's amount alone.
WonCreditBetOnly(bet_amount, ids) == bet_amount
\* WON: bet.amount + total_challenger_stake
WonCredit(bet_amount, ids) == bet_amount + Stake(ids)
\* "Proportional Risk": challenge.amount + math.floor(share), per challenge
ProportionalPay(ids, bet_amount) ==
    [i \in ids |-> AmountOf[i] + FloorShare(AmountOf[i], Stake(ids), bet_amount)]
\* vote_on_proof's LOST branch: challenge.amount * 2, per challenge
DoublePay(ids) == [i \in ids |-> AmountOf[i] * 2]
\* CANCELLED: challenge.amount back, per refunded challenge
RefundPay(ids) == [i \in ids |-> AmountOf[i]]

\* [c for c in bet.challenges if c.status == ACCEPTED] of resolve_bet
ResolveParticipants(b) == WithStatus(b, {"ACCEPTED"})
\* A cancellation that refunds the accepted challenges only.
CancelRefundedAcceptedOnly(b) == WithStatus(b, {"ACCEPTED"})
\* A cancellation that marks every challenge of the bet.
CancelRefundedAll(b) == ChallengesOf(b)
\* the challenges resolve_bet refunds and marks CANCELLED
CancelRefunded(b) == WithStatus(b, ChallengeStatus \ {"REJECTED"})
\* active_challenges of upload_proof and vote_on_proof
ActiveChallenges(b) == WithStatus(b, {"ACCEPTED", "PENDING"})
\* active_challenges of DeadlineChecker._check_deadlines
SweepParticipants(b) == WithStatus(b, {"PENDING"})

\* ---------------------------------------------------------- resolve_bet
\* resolve_bet without its "Bet is already resolved" check.
ResolveAllowedAnyStatus(u, b) == b \in BetIds /\ bets[b].user_id = u
ResolveAllowed(u, b) ==
    /\ b \in BetIds
    /\ bets[b].user_id = u
    /\ bets[b].status = "ACTIVE"

\* The attribute writes resolve_bet makes before db.commit().
ResolveWrites(u, b, new_status) ==
    LET acc == ResolveParticipants(b)
        amt == bets[b].amount
        none == [x \in Users |-> 0]
    IN  CASE new_status = "WON" ->
               [cr |-> [none EXCEPT ![u] = WonCredit(amt, acc)], wch |-> NoWrite]
          [] new_status = "LOST" /\ Stake(acc) > 0 ->
               [cr |-> CreditsOf(acc, ProportionalPay(acc, amt)), wch |-> NoWrite]
          [] new_status = "CANCELLED" ->
               [cr |-> [x \in Users |->
                          CreditsOf(CancelRefunded(b), RefundPay(CancelRefunded(b)))[x]
                          + (IF x = u THEN amt ELSE 0)],
                wch |-> [i \in CancelRefunded(b) |-> "CANCELLED"]]
          [] OTHER -> [cr |-> none, wch |-> NoWrite]

ResolveSession(u, b, new_status) ==
    LET w == ResolveWrites(u, b, new_status) IN
    [Idle EXCEPT !.op = "resolve", !.pc = "commit", !.user = u,
                 !.bet = b, !.arg = new_status,
                 !.wst = IF new_status = bets[b].status THEN "" ELSE new_status,
                 !.wpts = Credited(points, w.cr),
                 !.wch = w.wch]
BeginResolve(u, b, new_status) ==
    /\ ResolveAllowed(u, b)
    /\ Open(ResolveSession(u, b, new_status))
    /\ UNCHANGED <<points, bets, challenges, votes, now, sweep>>

\* --------------------------------------------------------- upload_proof
ProofAllowed(u, b, file_ok) ==
    /\ b \in BetIds
    /\ bets[b].user_id = u
    /\ ActiveChallenges(b) # {}
    /\ bets[b].status = "ACTIVE"
    /\ ~(now > bets[b].deadline)
    /\ file_ok

\* The checks run, then the handler awaits file.read() before it commits.
ProofSession(u, b) ==
    [Idle EXCEPT !.op = "proof", !.pc = "commit", !.user = u,
                 !.bet = b, !.wst = "PROOF_UNDER_REVIEW"]
BeginProof(u, b, file_ok) ==
    /\ ProofAllowed(u, b, file_ok)
    /\ Open(ProofSession(u, b))
    /\ UNCHANGED <<points, bets, challenges, votes, now, sweep>>

\* -------------------------------------------------------- vote_on_proof
VotesOf(b) == {j \in 1..Len(votes) : votes[j].bet_id = b}
Challengers(ids) == {challenges[i].challenger_id : i \in ids}
HasVoted(u, b) == \E j \in VotesOf(b) : votes[j].user_id = u

VoteAllowed(u, b) ==
    /\ b \in BetIds
    /\ bets[b].status = "PROOF_UNDER_REVIEW"
    /\ u \in Challengers(ActiveChallenges(b))
    /\ ~HasVoted(u, b)

\* Lines 254-275: the bet, its challenges and the voter's earlier vote are read.
VoteSession(u, b, v) ==
    [Idle EXCEPT !.op = "vote", !.pc = "flush", !.user = u,
                 !.bet = b, !.arg = v,
                 !.me_pts = points[u],
                 !.bamt = bets[b].amount,
                 !.act = ActiveChallenges(b)]
BeginVote(u, b, v) ==
    /\ VoteAllowed(u, b)
    /\ Open(VoteSession(u, b, v))
    /\ UNCHANGED <<points, bets, challenges, votes, now, sweep>>

\* The majority test with >= in the place of >.
CoolAtLeastHalf(cool_count, total_voters) == 2 * cool_count >= total_voters
\* cool_count > total_voters / 2
CoolMajority(cool_count, total_voters) == 2 * cool_count > total_voters
\* votes_cast >= total_voters
AllVoted(votes_cast, total_voters) == votes_cast >= total_voters

\* The auto-resolution check of vote_on_proof for session r: the session sees
\* the committed votes and its own flushed vote; user rows are read now, but
\* the voter's own row is the one get_current_user loaded.
VoteWrites(r) ==
    LET cool_count == Cardinality({j \in VotesOf(r.bet) : votes[j].vote = "cool"})
                      + (IF r.arg = "cool" THEN 1 ELSE 0)
        votes_cast == Cardinality(VotesOf(r.bet)) + 1
        total_voters == Cardinality(Challengers(r.act))
        base == [points EXCEPT ![r.user] = r.me_pts]
        creator == bets[r.bet].user_id
        none == [x \in Users |-> 0]
    IN  IF CoolMajority(cool_count, total_voters)
        THEN [wst |-> "WON", base |-> base,
              cr |-> [none EXCEPT ![creator] = WonCredit(r.bamt, r.act)]]
        ELSE IF AllVoted(votes_cast, total_voters)
        THEN [wst |-> "LOST", base |-> base,
              cr |-> CreditsOf(r.act, DoublePay(r.act))]
        ELSE [wst |-> "", base |-> base, cr |-> none]

\* Lines 277-310: db.flush() sends the INSERT, then the votes are counted.
Flushed(r) ==
    LET w == VoteWrites(r)
    IN  [r EXCEPT !.pc = "commit", !.wst = w.wst,
                  !.wpts = Credited(w.base, w.cr)]
FlushVote(r) ==
        /\ r.op = "vote" /\ r.pc = "flush"
        /\ sess' = (sess \ {r}) \cup {Flushed(r)}
        /\ UNCHANGED races
        /\ UNCHANGED <<points, bets, challenges, votes, now, sweep>>

CommitVote(r) ==
    /\ r.op = "vote" /\ r.pc = "commit"
    /\ Close(r)
    /\ votes' = Append(votes, [bet_id |-> r.bet, user_id |-> r.user, vote |-> r.arg])
    /\ points' = WritePoints(r.wpts)
    /\ bets' = WriteBets(r)
    /\ UNCHANGED <<challenges, now, sweep>>

\* ----------------------------------------------------- deadline checker
\* The query of _check_deadlines without its status filter.
ExpiredAnyStatus == {b \in BetIds : bets[b].deadline <= now}
\* The query of _check_deadlines with deadline < now.
ExpiredBeforeNow == {b \in BetIds : bets[b].status = "ACTIVE" /\ bets[b].deadline < now}
\* The expired_active query of _check_deadlines.
ExpiredActive == {b \in BetIds : bets[b].status = "ACTIVE" /\ bets[b].deadline <= now}

SweepPay(b) == ProportionalPay(SweepParticipants(b), bets[b].amount)
SweepCreditsRefundsCreator(b) ==
    IF Stake(SweepParticipants(b)) > 0
    THEN CreditsOf(SweepParticipants(b), SweepPay(b))
    ELSE [x \in Users |-> IF x = bets[b].user_id THEN bets[b].amount ELSE 0]
SweepCredits(b) ==
    IF Stake(SweepParticipants(b)) > 0
    THEN CreditsOf(SweepParticipants(b), SweepPay(b))
    ELSE [x \in Users |-> 0]

RECURSIVE SumCredits(_)
SumCredits(B) ==
    IF B = {} THEN [x \in Users |-> 0]
    ELSE LET b == CHOOSE x \in B : TRUE
             rest == SumCredits(B \ {b})
         IN  [x \in Users |-> SweepCredits(b)[x] + rest[x]]

\* One pass of _check_deadlines up to its db.commit(): the loop over the
\* expired bets sets attributes in the pass's one session.
SweepSession ==
    [SweepIdle EXCEPT !.pc = "commit",
                      !.wpts = Credited(points, SumCredits(ExpiredActive)),
                      !.lost = ExpiredActive,
                      !.stop = sweep.stop,
                      !.failed = sweep.failed]
BeginSweep ==
    /\ sweep.pc = "idle"
    /\ ExpiredActive # {}
    /\ sweep' = SweepSession
    /\ IF sess # {} THEN races < MaxRaces /\ races' = races + 1
       ELSE UNCHANGED races
    /\ UNCHANGED <<points, bets, challenges, votes, now, sess>>

\* db.commit() and db.close() of the pass whose session is sw.
CommitPass(sw) ==
    /\ sweep' = [SweepIdle EXCEPT !.stop = sweep.stop]
    /\ points' = WritePoints(sw.wpts)
    /\ bets' = [b \in BetIds |->
                  IF b \in sw.lost
                  THEN [bets[b] EXCEPT
                          !.status = "LOST",
                          !.settled = Append(@, [by |-> "sweep", status |-> "LOST"])]
                  ELSE bets[b]]
    /\ UNCHANGED <<challenges, votes, now, sess, races>>
CommitSweep == sweep.pc = "commit" /\ CommitPass(sweep)

Tick ==
    /\ now < MaxTime
    /\ now' = now + 1
    /\ UNCHANGED <<points, bets, challenges, votes, sess, sweep, races>>

\* ------------------------------------------------------- specifications
InFlight(op) == Cardinality({r \in sess : r.op = op})
Creators == {1}

Next ==
    /\ UNCHANGED <<resp, proofs>>
    /\ UNCHANGED feed
    /\ \/ \E u \in Creators, a \in BetAmounts, d \in Deadlines :
             /\ Len(bets) + InFlight("create_bet") < MaxBets
             /\ BeginCreateBet(u, a, d, TRUE)
       \/ \E r \in sess : CommitCreateBet(r)
       \/ \E u \in Requesters, b \in BetIds, a \in ChallengeAmounts :
             /\ Len(challenges) + InFlight("challenge") < MaxChallenges
             /\ BeginChallenge(u, b, a)
       \/ \E r \in sess : CommitChallenge(r)
       \/ \E u \in Users, b \in BetIds, c \in ChIds : BeginAccept(u, b, c)
       \/ \E u \in Users, b \in BetIds, c \in ChIds : BeginReject(u, b, c)
       \/ \E u \in Users, b \in BetIds, st \in BetStatus : BeginResolve(u, b, st)
       \/ \E u \in Users, b \in BetIds : BeginProof(u, b, TRUE)
       \/ \E r \in sess : CommitUpdate(r)
       \/ \E u \in Users, b \in BetIds, v \in VoteValues :
             BeginVote(u, b, v)
       \/ \E r \in sess : FlushVote(r)
       \/ \E r \in sess : CommitVote(r)
       \/ BeginSweep
       \/ CommitSweep
       \/ Tick

Spec == Init /\ [][Next]_vars

\* Serial executions: every request, and every pass of the deadline checker,
\* runs from its first read to its commit with no other session open, so each
\* is one step: the handler's checks, then its commit.  The amounts are those
\* of tests/test_betting_flow.py.
SeqBetAmounts == {7}
SeqChallengeAmounts == {3, 4, 5}

create_bet_endpoint(u, amount, deadline, personal) ==
    CreateBetAllowed(u, amount, personal) /\ CommitCreateBet(CreateBetSession(u, amount, deadline))
create_challenge(u, b, amount) ==
    ChallengeAllowed(u, b, amount) /\ CommitChallenge(ChallengeSession(u, b, amount))
accept_challenge(u, b, c) ==
    AcceptAllowed(u, b, c) /\ CommitUpdate(AcceptSession(u, b, c))
reject_challenge(u, b, c) ==
    CreatorsPending(u, b, c) /\ CommitUpdate(RejectSession(u, b, c))
resolve_bet(u, b, new_status) ==
    ResolveAllowed(u, b) /\ CommitUpdate(ResolveSession(u, b, new_status))
upload_proof(u, b, file_ok) ==
    ProofAllowed(u, b, file_ok) /\ CommitUpdate(ProofSession(u, b))
vote_on_proof(u, b, v) ==
    VoteAllowed(u, b) /\ CommitVote(Flushed(VoteSession(u, b, v)))
check_deadlines ==
    ExpiredActive # {} /\ CommitPass(SweepSession)

SeqNext ==
    /\ UNCHANGED <<resp, proofs>>
    /\ UNCHANGED feed
    /\ \/ \E u \in Creators, a \in SeqBetAmounts, d \in Deadlines :
             Len(bets) < MaxBets /\ create_bet_endpoint(u, a, d, TRUE)
       \/ \E u \in Requesters, b \in BetIds, a \in SeqChallengeAmounts :
             Len(challenges) < MaxChallenges /\ create_challenge(u, b, a)
       \/ \E u \in Users, b \in BetIds, c \in ChIds : accept_challenge(u, b, c)
       \/ \E u \in Users, b \in BetIds, c \in ChIds : reject_challenge(u, b, c)
       \/ \E u \in Users, b \in BetIds, st \in BetStatus : resolve_bet(u, b, st)
       \/ \E u \in Users, b \in BetIds : upload_proof(u, b, TRUE)
       \/ \E u \in Users, b \in BetIds, v \in VoteValues : vote_on_proof(u, b, v)
       \/ check_deadlines
       \/ Tick

SeqSpec == Init /\ [][SeqNext]_vars

\* ---------------------------------------------------------- the tribunal
\* Serial executions that start when upload_proof has just committed: user 1
\* created the bet, the users of the panel challenged it, user 1 accepted
\* some of the challenges, and the proof was uploaded before the deadline.
\* From there the panel votes while user 1 accepts or rejects challenges.
Panels == {<<2>>, <<2, 3>>, <<2, 3, 4>>}
TribunalAmounts == {1, 2}
TribunalInit ==
    \E a \in BetAmounts, panel \in Panels :
    \E st \in [DOMAIN panel -> {"PENDING", "ACCEPTED"}],
       am \in [DOMAIN panel -> TribunalAmounts] :
        LET matched == SumOver({i \in DOMAIN panel : st[i] = "ACCEPTED"}, am)
        IN  /\ validate_points(StartPoints, a)
            /\ StartPoints - a - matched >= 0
            /\ challenges = [i \in DOMAIN panel |->
                                [bet_id |-> 1, challenger_id |-> panel[i],
                                 amount |-> am[i], status |-> st[i]]]
            /\ bets = <<[user_id |-> 1, amount |-> a + matched, deadline |-> 1,
                         status |-> "PROOF_UNDER_REVIEW", stake |-> a,
                         settled |-> <<>>]>>
            /\ points = [u \in Users |->
                            IF u = 1 THEN StartPoints - a - matched
                            ELSE IF \E i \in DOMAIN panel : panel[i] = u
                            THEN StartPoints
                                 - am[CHOOSE i \in DOMAIN panel : panel[i] = u]
                            ELSE StartPoints]
            /\ votes = <<>>
            /\ now = 0
            /\ sess = {}
            /\ sweep = SweepIdle
            /\ races = 0
            /\ resp = NoResp
            /\ proofs = {1}
            /\ NoFeed

TribunalNext ==
    /\ UNCHANGED <<resp, proofs>>
    /\ UNCHANGED feed
    /\ \/ \E u \in Users, b \in BetIds, v \in VoteValues : vote_on_proof(u, b, v)
       \/ \E u \in Users, b \in BetIds, c \in ChIds : accept_challenge(u, b, c)
       \/ \E u \in Users, b \in BetIds, c \in ChIds : reject_challenge(u, b, c)

TribunalSpec == TribunalInit /\ [][TribunalNext]_vars

\* ----------------------------------------------------------- payouts
\* The LOST settlements over the stakes that floor differently in doubles:
\* an ACTIVE bet of user 1 whose deadline is reached, with one to three
\* challenges, each PENDING or ACCEPTED.  The balances are those of users
\* who have staked all they held, won in earlier bets.
PayoutAmounts == {1, 3, 16, 32}
PayoutStakes == {7, 49}
PayoutInit ==
    \E a \in PayoutStakes, panel \in Panels :
    \E st \in [DOMAIN panel -> {"PENDING", "ACCEPTED"}],
       am \in [DOMAIN panel -> PayoutAmounts] :
        LET matched == SumOver({i \in DOMAIN panel : st[i] = "ACCEPTED"}, am)
        IN  /\ SumOver(DOMAIN panel, am) <= 50
            /\ a + matched <= 60
            /\ challenges = [i \in DOMAIN panel |->
                                [bet_id |-> 1, challenger_id |-> panel[i],
                                 amount |-> am[i], status |-> st[i]]]
            /\ bets = <<[user_id |-> 1, amount |-> a + matched, deadline |-> 0,
                         status |-> "ACTIVE", stake |-> a,
                         settled |-> <<>>]>>
            /\ points = [u \in Users |-> 0]
            /\ votes = <<>>
            /\ now = 0
            /\ sess = {}
            /\ sweep = SweepIdle
            /\ races = 0
            /\ resp = NoResp
            /\ proofs = {}
            /\ NoFeed

PayoutNext ==
    /\ UNCHANGED <<resp, proofs>>
    /\ UNCHANGED feed
    /\ \/ \E u \in Users, b \in BetIds : resolve_bet(u, b, "LOST")
       \/ check_deadlines

PayoutSpec == PayoutInit /\ [][PayoutNext]_vars

\* ----------------------------------------------------------- responses
SchemaAmountUnchecked(amount) == "ok"
\* What each request answers, from the checks of its handler in the order
\* the code makes them; "ok" is the 200 or 201 of a request that commits.
\* BetCreate.amount and ChallengeCreate.amount are declared Field(gt=0):
\* FastAPI answers 422 before the handler runs.
SchemaAmount(amount) == IF amount > 0 THEN "ok" ELSE "422 amount greater_than"
validate_points_error_no_funds_check(user_points, amount) ==
    IF amount <= 0 THEN "400 InvalidBetAmountError" ELSE "ok"
validate_points_error(user_points, amount) ==
    IF amount <= 0 THEN "400 InvalidBetAmountError"
    ELSE IF user_points < amount THEN "400 InsufficientFundsError"
    ELSE "ok"
\* The first check that fails, in the order given.
FirstError(checks) ==
    IF \E i \in DOMAIN checks : checks[i] # "ok"
    THEN checks[CHOOSE i \in DOMAIN checks :
                  checks[i] # "ok" /\ \A j \in 1..(i - 1) : checks[j] = "ok"]
    ELSE "ok"
Check(passes, error) == IF passes THEN "ok" ELSE error

create_bet_response(u, amount, personal) ==
    FirstError(<<SchemaAmount(amount),
                 validate_points_error(points[u], amount),
                 Check(is_personal(personal), "400 not a personal commitment")>>)
create_challenge_response(u, b, amount) ==
    IF SchemaAmount(amount) # "ok" THEN SchemaAmount(amount)
    ELSE IF b \notin BetIds THEN "404 BetNotFoundError"
    ELSE FirstError(<<Check(bets[b].status = "ACTIVE", "400 resolved bet"),
                      Check(bets[b].user_id # u, "400 own bet"),
                      Check(~HoldsActive(u, b), "400 already challenged"),
                      validate_points_error(points[u], amount)>>)
ProcessChallengeAnyCaller(u, b, c) ==
    IF b \notin BetIds THEN "404 BetNotFoundError"
    ELSE IF c \notin ChIds \/ challenges[c].bet_id # b THEN "404 challenge"
    ELSE Check(challenges[c].status = "PENDING", "400 already processed")
\* The part accept_challenge and reject_challenge share.
ProcessChallengeError(u, b, c) ==
    IF b \notin BetIds THEN "404 BetNotFoundError"
    ELSE IF bets[b].user_id # u THEN "403 only bet creator"
    ELSE IF c \notin ChIds \/ challenges[c].bet_id # b THEN "404 challenge"
    ELSE Check(challenges[c].status = "PENDING", "400 already processed")
accept_challenge_response(u, b, c) ==
    IF ProcessChallengeError(u, b, c) # "ok" THEN ProcessChallengeError(u, b, c)
    ELSE validate_points_error(points[u], challenges[c].amount)
reject_challenge_any_status(u, b, c) ==
    IF b \notin BetIds THEN "404 BetNotFoundError"
    ELSE IF bets[b].user_id # u THEN "403 only bet creator"
    ELSE Check(c \in ChIds /\ challenges[c].bet_id = b, "404 challenge")
reject_challenge_response(u, b, c) == ProcessChallengeError(u, b, c)
resolve_bet_response(u, b) ==
    IF b \notin BetIds \/ bets[b].user_id # u THEN "404 BetNotFoundError"
    ELSE Check(bets[b].status = "ACTIVE", "400 already resolved")
upload_proof_no_deadline_check(u, b, file_ok) ==
    IF b \notin BetIds THEN "404 BetNotFoundError"
    ELSE FirstError(<<Check(bets[b].user_id = u, "403 only bet creator"),
                      Check(ActiveChallenges(b) # {}, "400 no challengers"),
                      Check(bets[b].status = "ACTIVE", "400 not active"),
                      Check(file_ok, "400 file")>>)
upload_proof_response(u, b, file_ok) ==
    IF b \notin BetIds THEN "404 BetNotFoundError"
    ELSE FirstError(<<Check(bets[b].user_id = u, "403 only bet creator"),
                      Check(ActiveChallenges(b) # {}, "400 no challengers"),
                      Check(bets[b].status = "ACTIVE", "400 not active"),
                      Check(~(now > bets[b].deadline), "400 deadline passed"),
                      Check(file_ok, "400 file")>>)
vote_on_proof_no_existing_vote_check(u, b) ==
    IF b \notin BetIds THEN "404 BetNotFoundError"
    ELSE FirstError(<<Check(bets[b].status = "PROOF_UNDER_REVIEW", "400 not under review"),
                      Check(u \in Challengers(ActiveChallenges(b)), "403 only active challengers")>>)
vote_on_proof_response(u, b) ==
    IF b \notin BetIds THEN "404 BetNotFoundError"
    ELSE FirstError(<<Check(bets[b].status = "PROOF_UNDER_REVIEW", "400 not under review"),
                      Check(u \in Challengers(ActiveChallenges(b)), "403 only active challengers"),
                      Check(~HasVoted(u, b), "400 already voted")>>)

\* A request raises: nothing is committed, the error is answered.
Raise(q) ==
    /\ resp' = q
    /\ UNCHANGED <<points, bets, challenges, votes, now, sess, sweep, races, proofs>>
    /\ UNCHANGED feed
Req(op, u, b, c, amount, arg, code) ==
    [op |-> op, user |-> u, bet |-> b, ch |-> c, amt |-> amount,
     arg |-> arg, code |-> code]

PostBet(u, amount, deadline, personal) ==
    LET q == Req("create_bet", u, 0, 0, amount,
                 IF personal THEN "personal" ELSE "not personal",
                 create_bet_response(u, amount, personal))
    IN  /\ resp = NoResp
        /\ IF q.code = "ok"
           THEN CommitCreateBet(CreateBetSession(u, amount, deadline)) /\ resp' = q /\ UNCHANGED proofs
           ELSE Raise(q)
PostChallenge(u, b, amount) ==
    LET q == Req("challenge", u, b, 0, amount, "", create_challenge_response(u, b, amount))
    IN  /\ resp = NoResp
        /\ IF q.code = "ok"
           THEN CommitChallenge(ChallengeSession(u, b, amount)) /\ resp' = q /\ UNCHANGED proofs
           ELSE Raise(q)
PostAccept(u, b, c) ==
    LET q == Req("accept", u, b, c, 0, "", accept_challenge_response(u, b, c))
    IN  /\ resp = NoResp
        /\ IF q.code = "ok"
           THEN CommitUpdate(AcceptSession(u, b, c)) /\ resp' = q /\ UNCHANGED proofs
           ELSE Raise(q)
PostReject(u, b, c) ==
    LET q == Req("reject", u, b, c, 0, "", reject_challenge_response(u, b, c))
    IN  /\ resp = NoResp
        /\ IF q.code = "ok"
           THEN CommitUpdate(RejectSession(u, b, c)) /\ resp' = q /\ UNCHANGED proofs
           ELSE Raise(q)
PatchBet(u, b, new_status) ==
    LET q == Req("resolve", u, b, 0, 0, new_status, resolve_bet_response(u, b))
    IN  /\ resp = NoResp
        /\ IF q.code = "ok"
           THEN CommitUpdate(ResolveSession(u, b, new_status)) /\ resp' = q /\ UNCHANGED proofs
           ELSE Raise(q)
PostProof(u, b, file_ok) ==
    LET q == Req("proof", u, b, 0, 0, IF file_ok THEN "file" ELSE "bad file",
                 upload_proof_response(u, b, file_ok))
    IN  /\ resp = NoResp
        /\ IF q.code = "ok"
           THEN /\ CommitUpdate(ProofSession(u, b)) /\ resp' = q
                /\ proofs' = proofs \cup {b}
           ELSE Raise(q)
PostVote(u, b, v) ==
    LET q == Req("vote", u, b, 0, 0, v, vote_on_proof_response(u, b))
    IN  /\ resp = NoResp
        /\ IF q.code = "ok"
           THEN CommitVote(Flushed(VoteSession(u, b, v))) /\ resp' = q /\ UNCHANGED proofs
           ELSE Raise(q)
\* The response has been sent.
Respond ==
    /\ resp # NoResp
    /\ resp' = NoResp
    /\ UNCHANGED <<points, bets, challenges, votes, now, sess, sweep, races, proofs>>
    /\ UNCHANGED feed

\* Inputs of the requests whose responses are observed.
ApiBetAmounts == {-1, 0, 5, 11}
ApiChallengeAmounts == {-1, 0, 3, 11}
\* BetCreate.deadline is any datetime: one already reached, one ahead.
ApiDeadlines == {0, 1}
ApiNext ==
    /\ UNCHANGED feed
    /\ \/ \E u \in Creators, a \in ApiBetAmounts, d \in ApiDeadlines, personal \in BOOLEAN :
             Len(bets) < MaxBets /\ PostBet(u, a, d, personal)
       \/ \E u \in Requesters, b \in BetIds, a \in ApiChallengeAmounts :
             Len(challenges) < MaxChallenges /\ PostChallenge(u, b, a)
       \/ \E u \in Requesters, b \in BetIds, c \in ChIds : PostAccept(u, b, c)
       \/ \E u \in Requesters, b \in BetIds, c \in ChIds : PostReject(u, b, c)
       \/ \E u \in Requesters, b \in BetIds, st \in BetStatus : PatchBet(u, b, st)
       \/ \E u \in Requesters, b \in BetIds, file_ok \in BOOLEAN : PostProof(u, b, file_ok)
       \/ \E u \in Requesters, b \in BetIds, v \in VoteValues : PostVote(u, b, v)
       \/ Respond
       \/ resp = NoResp /\ check_deadlines /\ UNCHANGED <<resp, proofs>>
       \/ resp = NoResp /\ Tick /\ UNCHANGED <<resp, proofs>>

ApiSpec == Init /\ [][ApiNext]_vars

\* ------------------------------------------------------------- crashes
\* The process dies while a request or a pass of the checker is between its
\* reads and its db.commit(): the transaction is rolled back by the database
\* and nothing of it is seen again.
Crash(r) ==
    /\ sess' = sess \ {r}
    /\ UNCHANGED <<points, bets, challenges, votes, now, sweep, races>>
CrashSweep ==
    /\ sweep.pc = "commit"
    /\ sweep' = [SweepIdle EXCEPT !.stop = sweep.stop]
    /\ UNCHANGED <<points, bets, challenges, votes, now, sess, races>>

\* One request or pass at a time, each in two steps, its reads and its
\* commit, with a crash possible in between.
CrashNext ==
    /\ UNCHANGED <<resp, proofs>>
    /\ UNCHANGED feed
    /\ \/ /\ ~Busy
          /\ \/ \E u \in Creators, a \in BetAmounts, d \in Deadlines :
                   Len(bets) < MaxBets /\ BeginCreateBet(u, a, d, TRUE)
             \/ \E u \in Requesters, b \in BetIds, a \in ChallengeAmounts :
                   Len(challenges) < MaxChallenges /\ BeginChallenge(u, b, a)
             \/ \E u \in Users, b \in BetIds, c \in ChIds : BeginAccept(u, b, c)
             \/ \E u \in Users, b \in BetIds, c \in ChIds : BeginReject(u, b, c)
             \/ \E u \in Users, b \in BetIds, st \in BetStatus : BeginResolve(u, b, st)
             \/ \E u \in Users, b \in BetIds : BeginProof(u, b, TRUE)
             \/ \E u \in Users, b \in BetIds, v \in VoteValues : BeginVote(u, b, v)
             \/ BeginSweep
             \/ Tick
       \/ \E r \in sess : CommitCreateBet(r)
       \/ \E r \in sess : CommitChallenge(r)
       \/ \E r \in sess : CommitUpdate(r)
       \/ \E r \in sess : FlushVote(r)
       \/ \E r \in sess : CommitVote(r)
       \/ CommitSweep
       \/ \E r \in sess : Crash(r)
       \/ CrashSweep

CrashSpec == Init /\ [][CrashNext]_vars

\* -------------------------------------------------- the checker's thread
\* DeadlineChecker._run, one loop iteration at a time.  The while test finds
\* _stop_event clear and _check_deadlines is entered; the pass then commits,
\* or raises at one of the bets it selected: db.close() discards what the
\* pass had set and the except clause of _run logs the error; the thread
\* waits for CHECK_INTERVAL and tests the event again.
StartPass ==
    /\ sweep.pc = "idle" /\ ~sweep.stop
    /\ sweep' = SweepSession
    /\ UNCHANGED <<points, bets, challenges, votes, now, sess, races>>
\* The exception of a pass leaves _run: the thread ends.
PassRaisesUncaught(f) ==
    /\ sweep.pc = "commit" /\ f \in sweep.lost
    /\ sweep' = [SweepIdle EXCEPT !.pc = "ended", !.failed = f,
                                  !.stop = sweep.stop]
    /\ UNCHANGED <<points, bets, challenges, votes, now, sess, races>>
PassRaises(f) ==
    /\ sweep.pc = "commit" /\ f \in sweep.lost
    /\ sweep' = [SweepIdle EXCEPT !.pc = "caught", !.failed = f,
                                  !.stop = sweep.stop]
    /\ UNCHANGED <<points, bets, challenges, votes, now, sess, races>>
ResumeAfterError ==
    /\ sweep.pc = "caught"
    /\ sweep' = [sweep EXCEPT !.pc = "idle"]
    /\ UNCHANGED <<points, bets, challenges, votes, now, sess, races>>
\* The while test finds _stop_event set.
ExitLoop ==
    /\ sweep.pc = "idle" /\ sweep.stop
    /\ sweep' = [sweep EXCEPT !.pc = "ended"]
    /\ UNCHANGED <<points, bets, challenges, votes, now, sess, races>>
\* DeadlineChecker.stop: _stop_event.set()
stop ==
    /\ ~sweep.stop
    /\ sweep' = [sweep EXCEPT !.stop = TRUE]
    /\ UNCHANGED <<points, bets, challenges, votes, now, sess, races>>
_run ==
    /\ UNCHANGED <<resp, proofs>>
    /\ UNCHANGED feed
    /\ \/ StartPass
       \/ CommitSweep
       \/ \E f \in BetIds : PassRaises(f)
       \/ ResumeAfterError
       \/ ExitLoop

\* The requests that feed the checker, taken between its passes.
SweeperCreators == {1, 2}
SweeperDeadlines == {1, 2}
SweeperNext ==
    /\ UNCHANGED <<resp, proofs>>
    /\ UNCHANGED feed
    /\ \/ /\ sweep.pc # "commit"
          /\ \/ \E u \in SweeperCreators, a \in BetAmounts, d \in SweeperDeadlines :
                   /\ Len(bets) < Cardinality(SweeperCreators)
                   /\ create_bet_endpoint(u, a, d, TRUE)
             \/ \E u \in Requesters, b \in BetIds, a \in ChallengeAmounts :
                   Len(challenges) < MaxChallenges /\ create_challenge(u, b, a)
             \/ \E u \in Users, b \in BetIds : upload_proof(u, b, TRUE)
             \/ Tick
       \/ StartPass
       \/ CommitSweep
       \/ \E f \in BetIds : PassRaises(f)
       \/ ResumeAfterError
       \/ ExitLoop
       \/ stop

\* The thread is scheduled as long as it has a step to take, and
\* _stop_event.wait(CHECK_INTERVAL) returns.
SweeperSpec == Init /\ [][SweeperNext]_vars /\ WF_vars(_run)

\* ------------------------------------------------------------ the feed
\* invalidate() was called with no key.
NoKey == 0
\* TTLCache.get: the entry of the key, unless there is none or its 15 seconds
\* have passed (expired: time.time() > expires_at).
get(store, key, expired) ==
    IF expired THEN NoEntry ELSE store[key]
\* The store after get: an expired entry has been deleted.
Swept(store, key, expired) ==
    IF expired THEN [store EXCEPT ![key] = NoEntry] ELSE store
\* TTLCache.set (the store never holds max_size = 50 keys here).
set(store, key, value) == [store EXCEPT ![key] = value]
\* An invalidate that clears the first page only.
invalidate_first_page(store, key) == [store EXCEPT ![1] = NoEntry]
\* TTLCache.invalidate
invalidate(store, key) ==
    IF key # NoKey THEN [store EXCEPT ![key] = NoEntry]
    ELSE [k \in DOMAIN store |-> NoEntry]

\* order_by(Bet.stars.desc(), Bet.created_at.desc())
RECURSIVE Ranked(_)
Ranked(B) ==
    IF B = {} THEN <<>>
    ELSE LET top == CHOOSE b \in B :
                        \A o \in B : \/ stars[b] > stars[o]
                                     \/ stars[b] = stars[o] /\ b >= o
         IN  <<top>> \o Ranked(B \ {top})
StarredBy(b) == {u \in Users : <<b, u>> \in bet_stars}
\* What the feed shows of bet b.
BetWithUsername(b) ==
    [id |-> b, status |-> bets[b].status, amount |-> bets[b].amount,
     stars |-> stars[b],
     challenges |-> {<<c, challenges[c].status>> :
                        c \in {i \in ChallengesOf(b) :
                                  challenges[i].status # "REJECTED"}},
     proof_votes |-> VotesOf(b),
     starred_by_user_ids |-> StarredBy(b)]
\* The page that get_public_bets_paginated reads from the database.
FeedQuery(page) ==
    LET order == Ranked(BetIds)
        first == (page - 1) * FeedLimit + 1
        last  == IF page * FeedLimit < Len(order) THEN page * FeedLimit
                 ELSE Len(order)
    IN  [total |-> Len(bets),
         bets  |-> [i \in 1..(IF last >= first THEN last - first + 1 ELSE 0) |->
                        BetWithUsername(order[first + i - 1])]]

FeedSession(page) ==
    [op |-> "feed", key |-> page, result |-> FeedQuery(page),
     user |-> 0, bet |-> 0, existing |-> FALSE, seen |-> 0]
\* get_public_bets_paginated up to its queries: a hit is answered from the
\* cache, a miss reads the page from the database.
BeginFeed(page, expired) ==
    LET cached == get(feed_cache, page, expired)
    IN  /\ IF cached # NoEntry
           THEN /\ served' = [key |-> page, value |-> cached]
                /\ UNCHANGED <<feed_cache, feeds>>
           ELSE /\ \A r \in feeds : r.op # "feed"
                /\ Cardinality(feeds) <= MaxRaces
                /\ feeds' = feeds \cup {FeedSession(page)}
                /\ feed_cache' = Swept(feed_cache, page, expired)
                /\ UNCHANGED served
        /\ UNCHANGED <<points, bets, challenges, votes, now, sess, sweep, races,
                       stars, bet_stars>>
\* get_public_bets_paginated from feed_cache.set on.
EndFeed(r) ==
    /\ r.op = "feed"
    /\ feed_cache' = set(feed_cache, r.key, r.result)
    /\ feeds' = feeds \ {r}
    /\ UNCHANGED <<points, bets, challenges, votes, now, sess, sweep, races,
                   stars, bet_stars, served>>
\* The answer from the cache has been sent.
FeedServed ==
    /\ served # NoServed
    /\ served' = NoServed
    /\ UNCHANGED <<points, bets, challenges, votes, now, sess, sweep, races,
                   stars, bet_stars, feed_cache, feeds>>

\* toggle_star up to its commit: the bet and the user's star record are read.
StarSession(u, b) ==
    [op |-> "star", key |-> NoKey, result |-> NoEntry,
     user |-> u, bet |-> b, existing |-> <<b, u>> \in bet_stars,
     seen |-> stars[b]]
\* The counter that toggle_star writes.
StarsWritten(r) ==
    IF r.existing THEN (IF r.seen - 1 > 0 THEN r.seen - 1 ELSE 0)
    ELSE r.seen + 1
BeginStar(u, b) ==
    /\ b \in BetIds
    /\ StarsWritten(StarSession(u, b)) <= MaxStars
    /\ StarSession(u, b) \notin feeds
    /\ Cardinality(feeds) <= MaxRaces
    /\ feeds' = feeds \cup {StarSession(u, b)}
    /\ UNCHANGED <<points, bets, challenges, votes, now, sess, sweep, races,
                   stars, bet_stars, feed_cache, served>>
\* toggle_star from db.commit() on.  The INSERT of a second record of the
\* same bet and user violates uq_bet_star: the commit raises and nothing is
\* written.
CommitStar(r) ==
    /\ r.op = "star"
    /\ feeds' = feeds \ {r}
    /\ IF ~r.existing /\ <<r.bet, r.user>> \in bet_stars
       THEN UNCHANGED <<stars, bet_stars, feed_cache>>
       ELSE /\ bet_stars' = IF r.existing THEN bet_stars \ {<<r.bet, r.user>>}
                            ELSE bet_stars \cup {<<r.bet, r.user>>}
            /\ stars' = [stars EXCEPT ![r.bet] = StarsWritten(r)]
            /\ feed_cache' = invalidate(feed_cache, NoKey)
    /\ UNCHANGED <<points, bets, challenges, votes, now, sess, sweep, races,
                   served>>

\* A handler that leaves the stars alone; cleared tells whether it goes on to
\* feed_cache.invalidate() after its commit.
Handler(cleared) ==
    /\ feed_cache' = IF cleared THEN invalidate(feed_cache, NoKey)
                     ELSE feed_cache
    /\ UNCHANGED <<stars, bet_stars, feeds, served>>
\* vote_on_proof's resolved
resolved(b) == bets'[b].status # bets[b].status

\* The requests of the feed: bets are created, challenged, proved, voted on,
\* resolved and swept one request at a time, while feed reads and star
\* toggles overlap.
FeedBetAmounts == {7}
FeedChallengeAmounts == {3}
FeedChallengers == {2}
StarUsers == {2, 3}
FeedStatuses == {"WON", "CANCELLED"}
FeedNext ==
    /\ UNCHANGED <<resp, proofs>>
    /\ \/ served = NoServed /\ Handler(TRUE)
            /\ \E u \in Creators, a \in FeedBetAmounts, d \in Deadlines :
                  Len(bets) < MaxBets /\ create_bet_endpoint(u, a, d, TRUE)
       \/ served = NoServed /\ Handler(FALSE)
            /\ \E u \in FeedChallengers, b \in BetIds, a \in FeedChallengeAmounts :
                  Len(challenges) < MaxChallenges /\ create_challenge(u, b, a)
       \/ served = NoServed /\ Handler(TRUE)
            /\ \E u \in Creators, b \in BetIds, st \in FeedStatuses :
                  resolve_bet(u, b, st)
       \/ served = NoServed /\ Handler(TRUE)
            /\ \E u \in Creators, b \in BetIds : upload_proof(u, b, TRUE)
       \/ served = NoServed
            /\ \E u \in FeedChallengers, b \in BetIds, v \in VoteValues :
                  vote_on_proof(u, b, v) /\ Handler(resolved(b))
       \/ served = NoServed /\ check_deadlines /\ Handler(TRUE)
       \/ served = NoServed /\ Tick /\ Handler(FALSE)
       \/ served = NoServed /\ \E u \in StarUsers, b \in BetIds : BeginStar(u, b)
       \/ served = NoServed /\ \E r \in feeds : CommitStar(r)
       \/ served = NoServed /\ \E page \in FeedKeys, expired \in BOOLEAN :
                                  BeginFeed(page, expired)
       \/ served = NoServed /\ \E r \in feeds : EndFeed(r)
       \/ FeedServed

FeedSpec == Init /\ [][FeedNext]_vars
\* ============================================================ properties
PointsTotal == SumOver(Users, points)
\* The eligible challenges of the specification: PENDING or ACCEPTED.
Eligible(b) == WithStatus(b, {"PENDING", "ACCEPTED"})
Accepted(b) == WithStatus(b, {"ACCEPTED"})
NotRejected(b) == {i \in ChallengesOf(b) : challenges[i].status # "REJECTED"}
\* This step takes bet b from a live status to a terminal one.
Settles(b) == bets[b].status \notin Terminal /\ bets'[b].status \in Terminal
\* This step is the tribunal's resolution of bet b as st.
TribunalSettles(b, st) ==
    bets[b].status = "PROOF_UNDER_REVIEW" /\ bets'[b].status = st
\* What has been debited for bet b and not given back: the creator's stake,
\* the creator's matching debit for each accepted challenge, and the stake of
\* every challenge that was not rejected.
Outstanding(b) == bets[b].stake + Stake(Accepted(b)) + Stake(Eligible(b))
\* floor() may leave up to one point per paid challenger but one undistributed.
Dust(b) == IF Eligible(b) = {} THEN 0 ELSE Cardinality(Eligible(b)) - 1
\* The flow of tests/test_betting_flow.py: user 1 stakes 7, the two other
\* users challenge with 4 and 5, and neither challenge is accepted or rejected.
Scenario745 ==
    /\ Len(bets) = 1 /\ bets[1].user_id = 1
    /\ bets[1].stake = 7 /\ bets[1].amount = 7
    /\ Len(challenges) = 2
    /\ {challenges[1].amount, challenges[2].amount} = {4, 5}
    /\ challenges[1].challenger_id # challenges[2].challenger_id
    /\ \A i \in {1, 2} : challenges[i].status = "PENDING"

\* C1: whenever a bet becomes WON, LOST or CANCELLED, by resolve_bet, by the
\* vote tribunal or by the deadline pass, and unless it becomes LOST with
\* nobody paid, the points credited in that step equal what was debited for
\* the bet and not refunded, short by at most the rounding dust.
C1_SettlementConserves ==
    [][\A b \in BetIds :
         (Settles(b) /\ ~(bets'[b].status = "LOST" /\ points' = points)) =>
            /\ PointsTotal' - PointsTotal <= Outstanding(b)
            /\ PointsTotal' - PointsTotal >= Outstanding(b) - Dust(b)]_vars

\* C2: when the votes of distinct eligible voters on one bet overlap, the bet
\* is resolved by exactly one of them: never by two, and once every eligible
\* voter's vote is committed the bet is WON or LOST.  (Bets whose challenges
\* all stay eligible, so that the electorate is the same for every voter.)
VoteSettlements(b) ==
    Cardinality({k \in DOMAIN bets[b].settled : bets[b].settled[k].by = "vote"})
DistinctVoters(b) ==
    \A j, k \in VotesOf(b) : votes[j].user_id = votes[k].user_id => j = k
AllVotesIn(b) ==
    /\ Eligible(b) # {}
    /\ ChallengesOf(b) = Eligible(b)
    /\ \A u \in Challengers(Eligible(b)) : HasVoted(u, b)
    /\ ~\E r \in sess : r.op = "vote" /\ r.bet = b
C2_OneResolution ==
    \A b \in BetIds :
        DistinctVoters(b) =>
            /\ VoteSettlements(b) <= 1
            /\ AllVotesIn(b) => bets[b].status \in {"WON", "LOST"}

\* C3: a bet the deadline pass has settled was settled by nothing else, and
\* its status is the LOST of that one settlement, however the pass interleaves
\* with resolve_bet, upload_proof and vote_on_proof.
SweepSettled(b) ==
    \E k \in DOMAIN bets[b].settled : bets[b].settled[k].by = "sweep"
C3_SweepSettlesOnce ==
    \A b \in BetIds :
        SweepSettled(b) => Len(bets[b].settled) = 1 /\ bets[b].status = "LOST"

\* C4: every committed balance is >= 0, also when requests interleave.
C4_BalancesNonNegative == \A u \in Users : points[u] >= 0
\* Two debits of one user interleaved and both committed: the user holds two
\* live challenges on one bet, which a serial execution never allows.
C4_Witness ==
    \E i, j \in ChIds :
        /\ i # j
        /\ challenges[i].challenger_id = challenges[j].challenger_id
        /\ challenges[i].bet_id = challenges[j].bet_id
        /\ challenges[i].status = "PENDING" /\ challenges[j].status = "PENDING"

\* C5: a bet whose status is WON, LOST or CANCELLED keeps that status in
\* every step of a serial execution.
C5_TerminalIsFinal ==
    [][\A b \in BetIds :
         bets[b].status \in Terminal => bets'[b].status = bets[b].status]_vars
\* A request acted on a settled bet: the creator accepted a challenge after
\* resolve_bet had paid WON (accepted before, the creator would hold at least
\* the bet's amount).
C5_Witness ==
    \E b \in BetIds :
        /\ bets[b].status = "WON"
        /\ Accepted(b) # {}
        /\ points[bets[b].user_id] < bets[b].amount

\* C6: when the tribunal resolves a bet LOST, every eligible challenger is
\* credited stake + floor(stake * bet amount / total eligible stake); in the
\* 7/4/5 scenario both challengers end with 13 points.
SpecLostPay(b) ==
    [i \in Eligible(b) |->
        AmountOf[i] + ((AmountOf[i] * bets[b].amount) \div Stake(Eligible(b)))]
C6_TribunalLostPayout ==
    [][\A b \in BetIds :
         TribunalSettles(b, "LOST") =>
            /\ \A u \in Users :
                  points'[u] = points[u] + CreditsOf(Eligible(b), SpecLostPay(b))[u]
            /\ Scenario745 =>
                  \A i \in {1, 2} : points'[challenges[i].challenger_id] = 13]_vars

\* C7: when the tribunal resolves a bet WON, the creator is credited the
\* bet's amount plus the stakes of all eligible challenges and nobody else's
\* balance changes; in the 7/4/5 scenario the creator ends with 19 points.
C7_TribunalWonPayout ==
    [][\A b \in BetIds :
         TribunalSettles(b, "WON") =>
            /\ points' = [points EXCEPT ![bets[b].user_id] =
                                    @ + bets[b].amount + Stake(Eligible(b))]
            /\ Scenario745 => points'[1] = 19]_vars
\* The scenario has been played: both challengers voted and the creator won.
C7_Witness ==
    /\ Len(bets) = 1 /\ bets[1].stake = 7 /\ bets[1].status = "WON"
    /\ bets[1].settled = <<[by |-> "vote", status |-> "WON"]>>
    /\ Len(challenges) = 2
    /\ {challenges[1].amount, challenges[2].amount} = {4, 5}
    /\ Len(votes) = 2
    /\ points[1] = 19

\* C8: cancelling an ACTIVE bet credits the creator the bet's amount, credits
\* every challenge that is not REJECTED its stake and marks it CANCELLED, and
\* so gives every user back exactly what the bet had taken from them.
TakenFrom(u, b) ==
    (IF u = bets[b].user_id THEN bets[b].stake + Stake(Accepted(b)) ELSE 0)
    + SumOver({i \in NotRejected(b) : challenges[i].challenger_id = u}, AmountOf)
C8_CancelRefundsAll ==
    [][\A b \in BetIds :
         (bets[b].status = "ACTIVE" /\ bets'[b].status = "CANCELLED") =>
            /\ \A i \in ChallengesOf(b) :
                  challenges'[i].status =
                      IF i \in NotRejected(b) THEN "CANCELLED" ELSE "REJECTED"
            /\ \A u \in Users :
                  /\ points'[u] = points[u]
                        + (IF u = bets[b].user_id THEN bets[b].amount ELSE 0)
                        + SumOver({i \in NotRejected(b) :
                                      challenges[i].challenger_id = u}, AmountOf)
                  /\ points'[u] = points[u] + TakenFrom(u, b)
            /\ Len(bets) = 1 => points' = [u \in Users |-> StartPoints]]_vars
\* A cancelled bet that had an accepted challenge and a rejected one.
C8_Witness ==
    \E b \in BetIds :
        /\ bets[b].status = "CANCELLED"
        /\ bets[b].amount > bets[b].stake
        /\ WithStatus(b, {"REJECTED"}) # {}
        /\ WithStatus(b, {"CANCELLED"}) # {}
        /\ points = [u \in Users |-> StartPoints]

\* C9: in every reachable state a bet's amount is the creator's initial stake
\* plus the amounts of the bet's ACCEPTED challenges.
C9_AmountIsStakePlusAccepted ==
    \A b \in BetIds : bets[b].amount = bets[b].stake + Stake(Accepted(b))

\* C10: in every reachable state, interleaved requests included, a user holds
\* at most one PENDING or ACCEPTED challenge on a bet.
C10_OneLiveChallenge ==
    \A b \in BetIds, u \in Users :
        Cardinality({i \in Eligible(b) : challenges[i].challenger_id = u}) <= 1

\* C11: in every reachable state, interleaved vote requests of one voter
\* included, a bet holds at most one vote of each voter, and a recorded vote
\* is never changed or removed.
C11_OneVotePerVoter ==
    [][/\ \A j \in 1..Len(votes) : Len(votes') >= j /\ votes'[j] = votes[j]
       /\ \A j, k \in 1..Len(votes') :
             (votes'[j].bet_id = votes'[k].bet_id
                /\ votes'[j].user_id = votes'[k].user_id) => j = k]_vars

\* A step that is a pass of the sweeper: it settles some bet.
SweepPassed ==
    \E b \in BetIds :
        /\ Len(bets'[b].settled) = Len(bets[b].settled) + 1
        /\ bets'[b].settled[Len(bets'[b].settled)].by = "sweep"

\* C12: a second pass of the deadline sweep right after a first one, with no
\* user operation in between, finds no bet to resolve and writes the balances
\* it read: every balance and every status stays as the first pass left it.
C12_SecondPassChangesNothing ==
    [][SweepPassed =>
         (ExpiredActive = {} /\ WritePoints(SweepSession.wpts) = points)']_vars
C12_Witness ==
    \E b \in BetIds :
        /\ SweepSettled(b) /\ bets[b].status = "LOST"
        /\ WithStatus(b, {"PENDING"}) # {}
        /\ \E c \in WithStatus(b, {"PENDING"}) :
              points[challenges[c].challenger_id] > StartPoints

\* This step commits a vote on bet b.
VoteCast(b) ==
    Len(votes') = Len(votes) + 1 /\ votes'[Len(votes')].bet_id = b
CoolVotes(b) == {j \in VotesOf(b) : votes[j].vote = "cool"}
\* The voters of bet b are the ones of proof-submission time: no challenge of
\* the bet has been rejected.
PanelIntact(b) == ChallengesOf(b) = Eligible(b)
Voters(b) == Challengers(Eligible(b))
Abstainers(b) == {u \in Voters(b) : ~HasVoted(u, b)}

C14_LostOnlyWhenAllVoted ==
    [][\A b \in BetIds :
         (VoteCast(b) /\ bets[b].status = "PROOF_UNDER_REVIEW")
         => LET majority ==
                    2 * Cardinality(CoolVotes(b)') > Cardinality(Voters(b)')
            IN  /\ bets'[b].status = "LOST"
                     => (Abstainers(b)' = {} /\ ~majority)
                /\ (Abstainers(b)' # {} /\ ~majority)
                     => bets'[b].status = "PROOF_UNDER_REVIEW"]_vars

\* C15: while a bet is under review the set of voters that vote_on_proof
\* uses, for the eligibility check and as the denominator of the majority
\* rule, stays the set of proof-submission time: no step taken from a state
\* in which the bet is under review, an accept or a reject of a challenge
\* included, changes it.
C15_PanelFixedDuringReview ==
    [][\A b \in BetIds :
         bets[b].status = "PROOF_UNDER_REVIEW" => Voters(b)' = Voters(b)]_vars

\* C16: as long as a bet is not WON, LOST or CANCELLED, a cancel request of
\* its creator succeeds: the request passes the checks of resolve_bet and its
\* commit can be taken.
C16_CreatorCanCancel ==
    \A b \in BetIds :
        bets[b].status \notin Terminal
            => ENABLED resolve_bet(bets[b].user_id, b, "CANCELLED")

\* What the LOST branch of vote_on_proof credits for bet b, by user.
VoteLostCredits(b) == CreditsOf(ActiveChallenges(b), DoublePay(ActiveChallenges(b)))

\* C17: for one bet with given challenge statuses and amounts, the LOST
\* settlement of the deadline sweep credits every user the amount the LOST
\* settlement of the tribunal credits.
C17_SweepPaysAsTribunal ==
    \A b \in BetIds : SweepCredits(b) = VoteLostCredits(b)

\* This step is the commit that ends a pass of the checker's thread.
PassCommitted == sweep.pc = "commit" /\ sweep'.pc = "idle"
Due(b) == bets[b].status = "ACTIVE" /\ bets[b].deadline <= now
\* The users with a PENDING challenge on a bet that is due.
DueChallengers ==
    {challenges[c].challenger_id :
        c \in {i \in ChIds : Due(challenges[i].bet_id)
                             /\ challenges[i].status = "PENDING"}}

\* C18: when a pass of the deadline sweep that ran at time now has committed,
\* every bet that was ACTIVE with deadline <= now is LOST and none is left
\* ACTIVE with deadline <= now; the other bets are as they were, no challenge
\* has changed, and only challengers of the bets that were due have a new
\* balance.
C18_PassResolvesExactlyTheDue ==
    [][PassCommitted =>
         /\ \A b \in BetIds :
               IF Due(b) THEN bets'[b].status = "LOST" ELSE bets'[b] = bets[b]
         /\ \A b \in BetIds :
               ~(bets'[b].status = "ACTIVE" /\ bets'[b].deadline <= now)
         /\ challenges' = challenges
         /\ \A u \in Users \ DueChallengers : points'[u] = points[u]]_vars
C18_Witness ==
    \E b1, b2 \in BetIds :
        /\ bets[b1].settled = <<[by |-> "sweep", status |-> "LOST"]>>
        /\ bets[b1].deadline <= now
        /\ bets[b2].status = "ACTIVE" /\ bets[b2].deadline > now
        /\ Eligible(b1) # {} /\ Eligible(b2) # {}
        /\ sweep.pc = "idle"

\* C19: when a pass of the deadline sweep fails at one of the expired bets it
\* selected, the other expired bets of that pass are LOST once the pass has
\* ended.
C19_FailureSparesOtherBets ==
    [][\A f \in BetIds :
         (sweep.pc = "commit" /\ sweep'.pc = "caught" /\ sweep'.failed = f)
         => \A b \in sweep.lost \ {f} : bets'[b].status = "LOST"]_vars

\* C20: after a pass of the deadline sweep has raised, the checker's thread
\* starts another pass unless stop() is called; once stop() has been called
\* no pass starts.
C20_SweeperSurvivesErrors ==
    /\ (sweep.failed # 0 /\ sweep.pc # "commit")
           ~> (sweep.pc = "commit" \/ sweep.stop)
    /\ [][sweep.stop => sweep'.stop /\ (sweep'.pc = "commit" => sweep.pc = "commit")]_vars
\* A pass is in progress after an earlier pass raised and the error was logged.
C20_Witness ==
    /\ sweep.pc = "commit" /\ ~sweep.stop
    /\ sweep.failed # 0 /\ sweep.failed \in sweep.lost

\* The settlement that this step commits for bet b, and what the code credits
\* for it, by user, from the rows as they are before the step.
NewSettlement(b) == bets'[b].settled[Len(bets'[b].settled)]
SettlementCredits(b) ==
    LET e == NewSettlement(b)
        u == bets[b].user_id
    IN  CASE e.by = "resolve" -> ResolveWrites(u, b, e.status).cr
          [] e.by = "vote" /\ e.status = "WON" ->
               [x \in Users |->
                  IF x = u THEN WonCredit(bets[b].amount, ActiveChallenges(b)) ELSE 0]
          [] e.by = "vote" /\ e.status = "LOST" -> VoteLostCredits(b)
          [] OTHER -> SweepCredits(b)
\* This step refunds a rejected challenge of user x.
RefundsRejected(x) ==
    \E c \in ChIds :
        /\ challenges[c].challenger_id = x
        /\ challenges[c].status = "PENDING" /\ challenges'[c].status = "REJECTED"

\* C21: a settlement and its state transition are one commit, crashes between
\* the reads and the commit of an operation included: the step that makes a
\* bet's status terminal applies the credits of that settlement, and no step
\* raises a balance unless it makes a bet's status terminal or rejects a
\* challenge of that user.
C21_SettlementIsAtomic ==
    [][/\ (\E b \in BetIds : Settles(b)) =>
             \A x \in Users :
                points'[x] = points[x]
                   + SumOver({b \in BetIds : Settles(b)},
                             [b \in BetIds |-> SettlementCredits(b)[x]])
       /\ \A x \in Users :
             points'[x] > points[x] =>
                (\E b \in BetIds : Settles(b)) \/ RefundsRejected(x)]_vars
C21_Witness ==
    \E b \in BetIds :
        /\ bets[b].settled = <<[by |-> "resolve", status |-> "LOST"]>>
        /\ \E c \in Accepted(b) : points[challenges[c].challenger_id] > StartPoints
        /\ ~Busy

\* ------------------------------------------------------- request claims
\* A step that handles one request: q is the request with its response.
Handles(ops) == resp = NoResp /\ resp' # NoResp /\ resp'.op \in ops
Refused == resp'.code # "ok" /\ db' = db

\* C22: a resolve/cancel, proof, accept or reject request by a user who is
\* not the bet's creator, and a vote by a user who holds no PENDING or
\* ACCEPTED challenge on the bet, fails and changes no bet, challenge, vote
\* or balance.
C22_OnlyCreatorAndChallengers ==
    [][ /\ ( /\ Handles({"resolve", "proof", "accept", "reject"})
             /\ resp'.user # bets[resp'.bet].user_id ) => Refused
        /\ ( /\ Handles({"vote"})
             /\ resp'.user \notin Challengers(ActiveChallenges(resp'.bet)) ) => Refused
      ]_vars
\* A stranger asked to accept a challenge that is still PENDING and was
\* answered 403.
C22_Witness ==
    /\ resp.op = "accept" /\ resp.code = "403 only bet creator"
    /\ resp.ch \in ChIds /\ challenges[resp.ch].status = "PENDING"
    /\ challenges[resp.ch].bet_id = resp.bet
    /\ resp.user # challenges[resp.ch].challenger_id

\* C23: a challenge request on a bet that is not ACTIVE, by the bet's
\* creator, or for more than the challenger's balance fails and leaves
\* balances, bets and challenges unchanged; a successful one debits the
\* challenger by exactly the amount and inserts one PENDING challenge, with
\* the bet unchanged.
C23_ChallengeRequest ==
    [][ Handles({"challenge"}) =>
          LET u == resp'.user  b == resp'.bet  a == resp'.amt
          IN  /\ ( \/ bets[b].status # "ACTIVE"
                   \/ bets[b].user_id = u
                   \/ points[u] < a ) => Refused
              /\ resp'.code = "ok" =>
                   /\ points' = [points EXCEPT ![u] = @ - a]
                   /\ challenges' = Append(challenges,
                                           [bet_id |-> b, challenger_id |-> u,
                                            amount |-> a, status |-> "PENDING"])
                   /\ bets' = bets /\ votes' = votes
      ]_vars
\* A challenge was accepted for processing and the challenger has paid.
C23_Witness ==
    /\ resp.op = "challenge" /\ resp.code = "ok"
    /\ points[resp.user] = StartPoints - resp.amt
    /\ \E c \in ChIds : /\ challenges[c].challenger_id = resp.user
                        /\ challenges[c].status = "PENDING"

\* C24: accepting a challenge succeeds only for the bet's creator, on a
\* PENDING challenge, with a balance of at least the challenge amount; it
\* debits the creator by the challenge amount, adds the same amount to the
\* bet and sets the challenge ACCEPTED, leaving the challenger's balance and
\* every other challenge unchanged; a failed accept changes nothing.
C24_AcceptRequest ==
    [][ Handles({"accept"}) =>
          LET u == resp'.user  b == resp'.bet  c == resp'.ch
              a == challenges[c].amount
          IN  /\ resp'.code = "ok" =>
                   /\ u = bets[b].user_id
                   /\ challenges[c].status = "PENDING"
                   /\ points[u] >= a
                   /\ points' = [points EXCEPT ![u] = @ - a]
                   /\ bets' = [bets EXCEPT ![b].amount = @ + a]
                   /\ challenges' = [challenges EXCEPT ![c].status = "ACCEPTED"]
                   /\ votes' = votes
              /\ resp'.code # "ok" => db' = db
      ]_vars
\* The creator accepted a challenge of another user, whose balance still
\* shows only the debit of the challenge.
C24_Witness ==
    /\ resp.op = "accept" /\ resp.code = "ok"
    /\ challenges[resp.ch].status = "ACCEPTED"
    /\ points[challenges[resp.ch].challenger_id] = StartPoints - challenges[resp.ch].amount
    /\ bets[resp.bet].amount = bets[resp.bet].stake + challenges[resp.ch].amount

\* C25: rejecting a challenge succeeds only for the bet's creator on a
\* PENDING challenge; it credits the challenger exactly the challenge amount
\* and sets the challenge REJECTED; a REJECTED challenge stays REJECTED and a
\* request to reject or accept it again fails and changes nothing, so the
\* refund happens once.
C25_RejectRequest ==
    [][ /\ Handles({"reject"}) /\ resp'.code = "ok" =>
             LET u == resp'.user  b == resp'.bet  c == resp'.ch
             IN  /\ u = bets[b].user_id
                 /\ challenges[c].status = "PENDING"
                 /\ points' = [points EXCEPT ![challenges[c].challenger_id] =
                                               @ + challenges[c].amount]
                 /\ challenges' = [challenges EXCEPT ![c].status = "REJECTED"]
                 /\ bets' = bets /\ votes' = votes
        /\ ( /\ Handles({"reject", "accept"})
             /\ challenges[resp'.ch].status = "REJECTED" ) => Refused
        /\ \A c \in ChIds : challenges[c].status = "REJECTED" =>
                              challenges'[c].status = "REJECTED"
      ]_vars
\* A second reject of a challenge that was rejected and refunded was refused.
C25_Witness ==
    /\ resp.op = "reject" /\ resp.code = "400 already processed"
    /\ challenges[resp.ch].status = "REJECTED"
    /\ points[challenges[resp.ch].challenger_id] = StartPoints

C27_VoteRequest ==
    [][ Handles({"vote"}) =>
          LET u == resp'.user  b == resp'.bet
          IN  ( \/ bets[b].status # "PROOF_UNDER_REVIEW"
                \/ u \notin Challengers(ActiveChallenges(b))
                \/ HasVoted(u, b) ) =>
                  /\ resp'.code # "ok"
                  /\ votes' = votes /\ bets' = bets
                  /\ challenges' = challenges /\ points' = points
      ]_vars
\* A challenger who has voted on a bet still under review voted again and
\* was refused: the bet holds that one vote of theirs.
C27_Witness ==
    /\ resp.op = "vote" /\ resp.code = "400 already voted"
    /\ bets[resp.bet].status = "PROOF_UNDER_REVIEW"
    /\ Cardinality({j \in VotesOf(resp.bet) : votes[j].user_id = resp.user}) = 1

\* C28: a bet or challenge request with an amount of 0 or less is rejected
\* with an invalid-amount error, creates nothing and changes no balance, and
\* the amount check that accepting a challenge runs before its debit rejects
\* every amount of 0 or less in the same way.
InvalidAmountErrors == {"422 amount greater_than", "400 InvalidBetAmountError"}
C28_NonPositiveAmountRejected ==
    [][ /\ ( Handles({"create_bet", "challenge"}) /\ resp'.amt <= 0 ) =>
             resp'.code \in InvalidAmountErrors /\ db' = db
        /\ ( /\ Handles({"accept"})
             /\ ProcessChallengeError(resp'.user, resp'.bet, resp'.ch) = "ok"
             /\ challenges[resp'.ch].amount <= 0 ) =>
             resp'.code \in InvalidAmountErrors /\ db' = db
        /\ \A u \in Users, amount \in {a \in ApiBetAmounts : a <= 0} :
             validate_points_error(points[u], amount) \in InvalidAmountErrors
      ]_vars
\* A challenge of 0 or less on an ACTIVE bet of another user was rejected
\* and the challenger's balance is untouched.
C28_Witness ==
    /\ resp.op = "challenge" /\ resp.amt <= 0
    /\ resp.code \in InvalidAmountErrors
    /\ bets[resp.bet].status = "ACTIVE" /\ bets[resp.bet].user_id # resp.user
    /\ points[resp.user] = StartPoints

\* C29: a bet creation, challenge creation or challenge acceptance whose
\* amount exceeds the caller's balance fails, creates no bet or challenge and
\* changes no balance; its error is the insufficient-funds error whenever the
\* request passes the checks made before the balance check; a successful
\* debit lowers the caller's balance by exactly the amount and no other
\* balance changes.
Debited(q) ==
    IF q.op = "accept" THEN challenges[q.ch].amount ELSE q.amt
ChecksBeforeFunds(q) ==
    CASE q.op = "create_bet" -> "ok"
      [] q.op = "challenge" ->
           FirstError(<<Check(bets[q.bet].status = "ACTIVE", "400 resolved bet"),
                        Check(bets[q.bet].user_id # q.user, "400 own bet"),
                        Check(~HoldsActive(q.user, q.bet), "400 already challenged")>>)
      [] OTHER -> ProcessChallengeError(q.user, q.bet, q.ch)
C29_DebitWithinBalance ==
    [][ Handles({"create_bet", "challenge", "accept"}) =>
          LET q == resp'  u == resp'.user
          IN  /\ ( Debited(q) > 0 /\ Debited(q) > points[u] ) =>
                   /\ Refused
                   /\ ChecksBeforeFunds(q) = "ok" =>
                        q.code = "400 InsufficientFundsError"
              /\ q.code = "ok" =>
                   points' = [points EXCEPT ![u] = @ - Debited(q)]
      ]_vars
\* The creator, left with less than a PENDING challenge's amount, asked to
\* accept it and was refused for insufficient funds.
C29_Witness ==
    /\ resp.op = "accept" /\ resp.code = "400 InsufficientFundsError"
    /\ challenges[resp.ch].status = "PENDING"
    /\ points[resp.user] < challenges[resp.ch].amount

\* C30: a bet request whose title the personal-commitment validator
\* classifies as not a personal commitment fails: no bet is created and the
\* creator's balance is not debited.
C30_NonPersonalBetRefused ==
    [][ ( Handles({"create_bet"}) /\ resp'.arg = "not personal" ) => Refused ]_vars

\* ------------------------------------------------------ remaining claims
\* The challenges a proportional LOST settlement of bet b pays: resolve_bet
\* pays the ACCEPTED ones, the deadline checker the PENDING ones.
PaidBy(b) ==
    IF NewSettlement(b).by = "resolve" THEN ResolveParticipants(b)
    ELSE SweepParticipants(b)
\* What the step credits a user, and what a paid challenge gets beyond its
\* stake (each paid user holds one paid challenge).
Gain(u) == points'[u] - points[u]
ShareOf(c) == Gain(challenges[c].challenger_id) - challenges[c].amount
\* C32: in a proportional LOST settlement (creator resolve or deadline
\* sweep) over n >= 1 paid challengers, each share is the proportional
\* share of the bet's amount rounded down, the shares sum to at most the
\* bet's amount and fall short of it by at most n - 1 points, and every paid
\* challenger gets at least the own stake back.
C32_FlooredSharesDust ==
    [][ \A b \in BetIds :
          ( /\ Settles(b) /\ bets'[b].status = "LOST"
            /\ NewSettlement(b).by \in {"resolve", "sweep"}
            /\ PaidBy(b) # {}
            /\ \A c, d \in PaidBy(b) :
                  challenges[c].challenger_id = challenges[d].challenger_id => c = d ) =>
            LET paid == PaidBy(b)
                given == SumOver(paid, [c \in ChIds |-> ShareOf(c)])
            IN  /\ \A c \in paid :
                     /\ ShareOf(c) >= 0
                     /\ ShareOf(c) * Stake(paid) <= AmountOf[c] * bets[b].amount
                /\ given <= bets[b].amount
                /\ bets[b].amount - given <= Cardinality(paid) - 1
      ]_vars

\* The challenges that take part in the settlement a step makes of bet b.
TakingPart(b) ==
    IF NewSettlement(b).by = "vote" THEN ActiveChallenges(b) ELSE PaidBy(b)
\* C33: when a bet is settled LOST and the stakes of the challenges taking
\* part in the settlement sum to 0, no user is credited anything: the bet's
\* amount is burned and the bet is LOST.
C33_LostWithoutStakesBurns ==
    [][ LET burnt == {b \in BetIds : /\ Settles(b) /\ bets'[b].status = "LOST"
                                     /\ Stake(TakingPart(b)) = 0}
        IN  /\ \A b \in burnt : bets'[b].amount = bets[b].amount
            /\ ( burnt # {} /\ \A b \in BetIds : Settles(b) => b \in burnt ) =>
                  points' = points
      ]_vars
\* The deadline pass settled a bet LOST whose only challenge had been
\* rejected and refunded: the creator's stake is gone and nobody has more
\* than at registration.
C33_Witness ==
    \E b \in BetIds :
        /\ bets[b].settled = <<[by |-> "sweep", status |-> "LOST"]>>
        /\ ActiveChallenges(b) = {} /\ ChallengesOf(b) # {}
        /\ points[bets[b].user_id] = StartPoints - bets[b].stake
        /\ \A u \in Users \ {bets[b].user_id} : points[u] = StartPoints

\* C34: when the deadline pass settles an expired ACTIVE bet LOST, every
\* challenger with an ACCEPTED challenge on it is credited the stake plus
\* the proportional share of the bet's amount.
C34_SweepPaysAccepted ==
    [][ \A b \in BetIds :
          ( /\ Settles(b) /\ NewSettlement(b).by = "sweep"
            /\ \A b2 \in BetIds \ {b} : ~Settles(b2) ) =>
            \A u \in Challengers(Accepted(b)) :
                Gain(u) = CreditsOf(Accepted(b),
                                    ProportionalPay(Accepted(b), bets[b].amount))[u]
      ]_vars

\* C35: a challenge's status changes only from PENDING to ACCEPTED, REJECTED
\* or CANCELLED and from ACCEPTED to CANCELLED; REJECTED and CANCELLED never
\* change; a challenge becomes CANCELLED only in the step that cancels its
\* bet.
ChallengeMoves ==
    { <<"PENDING", "ACCEPTED">>, <<"PENDING", "REJECTED">>,
      <<"PENDING", "CANCELLED">>, <<"ACCEPTED", "CANCELLED">> }
C35_ChallengeLifecycle ==
    [][ \A c \in ChIds :
          challenges'[c].status # challenges[c].status =>
            /\ <<challenges[c].status, challenges'[c].status>> \in ChallengeMoves
            /\ challenges'[c].status = "CANCELLED" =>
                 /\ bets[challenges[c].bet_id].status # "CANCELLED"
                 /\ bets'[challenges[c].bet_id].status = "CANCELLED"
      ]_vars
\* A bet was cancelled with one challenge ACCEPTED and one REJECTED: the
\* first is CANCELLED, the second still REJECTED.
C35_Witness ==
    \E b \in BetIds, c, d \in ChIds :
        /\ bets[b].status = "CANCELLED"
        /\ challenges[c].bet_id = b /\ challenges[d].bet_id = b
        /\ challenges[c].status = "CANCELLED" /\ bets[b].amount > bets[b].stake
        /\ challenges[d].status = "REJECTED"

\* C36: points are never created: the balances sum to at most what the
\* users were registered with.
C36_PointsNeverCreated ==
    PointsTotal <= StartPoints * Cardinality(Users)

\* C37: once a bet is WON, LOST or CANCELLED, no step changes a challenge of
\* the bet or the bet's amount, and a step that changes nothing but
\* balances and challenges of settled bets changes no balance.
C37_SettledBetIsFrozen ==
    [][ \A b \in BetIds :
          bets[b].status \in Terminal =>
            /\ bets'[b].amount = bets[b].amount
            /\ \A c \in ChallengesOf(b) : challenges'[c] = challenges[c]
            /\ ( /\ \A b2 \in BetIds : bets[b2].status \in Terminal
                 /\ Len(bets') = Len(bets) ) => points' = points
      ]_vars

\* C38: a bet is not under review in a state in which it has eligible voters
\* and every one of them has a recorded vote.
C38_ReviewEndsWhenAllVoted ==
    \A b \in BetIds :
        (Voters(b) # {} /\ Abstainers(b) = {})
            => bets[b].status # "PROOF_UNDER_REVIEW"

\* A step that commits a new bet, a star toggle or a bet status change.
FeedMutation ==
    \/ Len(bets') > Len(bets)
    \/ \E b \in BetIds : bets'[b].status # bets[b].status
    \/ bet_stars' # bet_stars
    \/ stars' # stars
CacheEmpty == \A k \in FeedKeys : feed_cache[k] = NoEntry
\* C31: the step of a committed new bet, star toggle or bet status change
\* leaves the feed cache without any entry.
C31_MutationClearsCache ==
    [][ FeedMutation => CacheEmpty' ]_vars
C31_Witness ==
    /\ CacheEmpty
    /\ \E b \in BetIds :
          /\ bets[b].status = "LOST" /\ stars[b] = 1
          /\ \E r \in feeds :
                /\ r.op = "feed" /\ r.key = 1 /\ r.result.total = 1
                /\ r.result.bets[1].status = "ACTIVE"
                /\ r.result.bets[1].stars = 0

\* C39: the star count of a bet is the number of its star records, and is
\* not negative.
C39_StarsCountRecords ==
    \A b \in BetIds :
        stars[b] = Cardinality(StarredBy(b)) /\ stars[b] >= 0

\* What the invalidating mutations change of a page: the number of bets,
\* their order, status, star count and starring users.
Listed(value) ==
    [total |-> value.total,
     bets  |-> [i \in DOMAIN value.bets |->
                   [id |-> value.bets[i].id,
                    status |-> value.bets[i].status,
                    stars |-> value.bets[i].stars,
                    starred_by_user_ids |-> value.bets[i].starred_by_user_ids]]]
\* C40: a feed read answered from the cache shows the state that the
\* committed new bets, star toggles and status changes have left.
C40_ReadAfterInvalidationIsFresh ==
    served # NoServed =>
        Listed(served.value) = Listed(FeedQuery(served.key))

====
